---- MODULE Spec2Model ----
(***************************************************************************)
(* PDF-maker: a React Native screen that picks gallery images, reads them  *)
(* as base64, renders them into one PDF and saves or shares the file.      *)
(* Two variants of the screen exist in the repository: src/App.js          *)
(* (variant "A": direct save on android, share elsewhere) and              *)
(* src/unnamed/part_000 (variant "B": share on every platform).            *)
(*                                                                         *)
(* Every async handler is a process whose steps are its await points; the  *)
(* values a handler closes over (selectedImages, pdfName) are the ones of  *)
(* the render it was bound in, kept in the call record as sel and name.    *)
(***************************************************************************)
EXTENDS Integers, Sequences, FiniteSets, TLC

VARIABLES variant, platform, selectedImages, pdfName, isGenerating,
          gen, pick, clearDialog, removed

vars == <<variant, platform, selectedImages, pdfName, isGenerating,
          gen, pick, clearDialog, removed>>

\* ---------------------------------------------------------------- bounds
MaxSel == 2
MaxNameLen == 2
MaxGen == 2
MaxPick == 1

\* ------------------------------------------------------------ input sets
Images == {"A", "B"}
NameChars == {" ", "a"}

SeqsUpTo(S, n) == UNION {[1..k -> S] : k \in 0..n}

Names == SeqsUpTo(NameChars, MaxNameLen)

Variants == {"A", "B"}

Platforms == {"android", "ios"}

\* name of the file Print.printToFileAsync leaves in the cache directory
PrintFile == <<"print-uuid", ".pdf">>

\* ------------------------------------------------------- pure functions
RECURSIVE trimStart(_)
trimStart(s) == IF s # <<>> /\ Head(s) = " " THEN trimStart(Tail(s)) ELSE s

RECURSIVE trimEnd(_)
trimEnd(s) ==
  IF s # <<>> /\ s[Len(s)] = " " THEN trimEnd(SubSeq(s, 1, Len(s) - 1)) ELSE s

trim(s) == trimEnd(trimStart(s))

\* the name with its surrounding blanks left in
fileNameUntrimmed(name) == name \o <<".pdf">>

fileName(name) == trim(name) \o <<".pdf">>

\* the filter with i counted from 1
RECURSIVE filterIndexOneBased(_, _, _)
filterIndexOneBased(s, index, i) ==
  IF i >= Len(s) THEN <<>>
  ELSE (IF i + 1 # index THEN <<s[i + 1]>> ELSE <<>>)
         \o filterIndexOneBased(s, index, i + 1)

\* selectedImages.filter((_, i) => i !== index), i counted from 0
RECURSIVE filterIndex(_, _, _)
filterIndex(s, index, i) ==
  IF i >= Len(s) THEN <<>>
  ELSE (IF i # index THEN <<s[i + 1]>> ELSE <<>>) \o filterIndex(s, index, i + 1)

\* what FileSystem.readAsStringAsync yields for a readable, non-empty image
Base64(img) == <<"b64", img>>

imgBlock(base64) == [tag |-> "img", src |-> base64]

\* the blocks in reverse order
RECURSIVE imagesHtmlReversed(_)
imagesHtmlReversed(images) ==
  IF images = <<>> THEN <<>>
  ELSE imagesHtmlReversed(Tail(images)) \o <<imgBlock(Head(images))>>

\* images.map(base64 => `<img .../>`).join('')
RECURSIVE imagesHtml(_)
imagesHtml(images) ==
  IF images = <<>> THEN <<>>
  ELSE <<imgBlock(Head(images))>> \o imagesHtml(Tail(images))

html(images) == [body |-> imagesHtml(images)]

\* a Generate PDF button that stays enabled during a generation
GenerateDisabledNoFlag == Len(selectedImages) = 0 \/ trim(pdfName) = <<>>

\* disabled prop of the Generate PDF button
GenerateDisabled ==
  Len(selectedImages) = 0 \/ trim(pdfName) = <<>> \/ isGenerating

\* disabled prop of the Select Images button
SelectDisabled == isGenerating

\* ---------------------------------------------------------- call records
NoGen == [pc |-> "idle", sel |-> <<>>, name |-> <<>>, flagSet |-> FALSE,
          i |-> 0, images |-> <<>>, reads |-> <<>>, prints |-> <<>>,
          uri |-> <<>>, saves |-> 0, docFile |-> <<>>, asset |-> <<>>,
          album |-> <<>>, available |-> "unknown", shares |-> <<>>,
          alerts |-> <<>>, errors |-> <<>>, position |-> 0,
          dialog |-> "none", resets |-> 0]

NoPick == [pc |-> "idle", sel |-> <<>>, imageStatus |-> "unknown",
           mediaStatus |-> "unknown", launched |-> FALSE, replaced |-> <<>>,
           assets |-> <<>>, alerts |-> <<>>, errors |-> <<>>]

\* a finished call (pc "done") is kept for one step, then forgotten; of a
\* finished generatePDF call only its unanswered success dialog stays
\* (pc "dialog")
OpenDialog == [NoGen EXCEPT !.pc = "dialog", !.dialog = "open"]

sweptGen ==
  [g \in DOMAIN gen |->
     IF gen[g].pc \notin {"done", "dialog"} THEN gen[g]
     ELSE IF gen[g].dialog = "open" THEN OpenDialog ELSE NoGen]

sweptPick ==
  [p \in DOMAIN pick |-> IF pick[p].pc = "done" THEN NoPick ELSE pick[p]]

Alert(rec, title) == [rec EXCEPT !.alerts = Append(@, title)]

Fail(rec, kind) == [rec EXCEPT !.errors = Append(@, kind)]

\* part_000 reads Platform.OS for paddings only: one platform stands for both
Init ==
  /\ variant \in Variants
  /\ platform \in (IF variant = "A" THEN Platforms ELSE {"android"})
  /\ selectedImages = <<>>
  /\ pdfName = <<>>
  /\ isGenerating = FALSE
  /\ gen = [g \in 1..MaxGen |-> NoGen]
  /\ pick = [p \in 1..MaxPick |-> NoPick]
  /\ clearDialog = FALSE
  /\ removed = <<>>

\* ------------------------------------------------------------ generatePDF
\* a call slot can be taken when no call occupies it and the success dialog
\* of the call that last used it has been answered
FreeGen(g) ==
  gen[g].pc \in {"idle", "done", "dialog"} /\ gen[g].dialog # "open"

\* call g is between its first line and its exit
InFlight(g) == gen[g].pc \notin {"idle", "done", "dialog"}

FirstFreeGen(g) == FreeGen(g) /\ \A h \in 1..(g - 1) : ~FreeGen(h)

\* a name test that forgets to trim
nameMissingNoTrim(name) == name = <<>>

\* !pdfName.trim()
nameMissing(name) == trim(name) = <<>>

\* the loop running over the selection of the current render instead of the
\* one the handler was bound to
readLoopCurrent(rec) ==
  IF rec.i < Len(selectedImages)
  THEN [rec EXCEPT !.pc = "read",
                   !.reads = Append(@, selectedImages[rec.i + 1])]
  ELSE IF Len(rec.images) = 0
       THEN [Alert(rec, "No images could be processed") EXCEPT !.pc = "done"]
       ELSE [rec EXCEPT !.pc = "print", !.prints = Append(@, html(rec.images))]

\* the for loop at index rec.i: start the next read, or leave the loop and
\* either give up on an empty images array or submit the markup to the renderer
readLoop(rec) ==
  IF rec.i < Len(rec.sel)
  THEN [rec EXCEPT !.pc = "read", !.reads = Append(@, rec.sel[rec.i + 1])]
  ELSE IF Len(rec.images) = 0
       THEN [Alert(rec, "No images could be processed") EXCEPT !.pc = "done"]
       ELSE [rec EXCEPT !.pc = "print", !.prints = Append(@, html(rec.images))]

\* generatePDF from its first line to its first await
enterGenerate ==
  LET call == [NoGen EXCEPT !.sel = selectedImages, !.name = pdfName] IN
  IF Len(selectedImages) = 0
  THEN [Alert(call, "No Images") EXCEPT !.pc = "done"]
  ELSE IF nameMissing(pdfName)
       THEN [Alert(call, "PDF Name Required") EXCEPT !.pc = "done"]
       ELSE readLoop([call EXCEPT !.flagSet = TRUE])

\* a read failure that skips the image and goes on with the loop
onReadErrorContinue(rec) == readLoop([Fail(rec, "read") EXCEPT !.i = @ + 1])

\* a notice that names the loop index instead of the ordinal position
onReadErrorZeroBased(rec) ==
  [Alert(Fail(rec, "read"), "Could not read image")
     EXCEPT !.pc = "done", !.position = rec.i]

\* catch (err) of the inner try: notice, setIsGenerating(false), return; the
\* notice names image i + 1
onReadError(rec) ==
  [Alert(Fail(rec, "read"), "Could not read image")
     EXCEPT !.pc = "done", !.position = rec.i + 1]

\* the base64 && base64.length > 0 test and the end of the loop body
onReadResult(rec, base64) ==
  LET kept == IF Len(base64) > 0
              THEN [rec EXCEPT !.images = Append(@, base64)]
              ELSE Fail(rec, "empty")
  IN readLoop([kept EXCEPT !.i = @ + 1])

\* an exit that leaves the flag as it is
finallyFlagKept == isGenerating

\* value of isGenerating once the call has left through finally
finallyFlag == FALSE

\* isGenerating after a step of a call that went past setIsGenerating(true)
flagAfter(new) == IF new.pc = "done" THEN finallyFlag ELSE isGenerating

\* the session reset: setSelectedImages([]); setPdfName('')
Reset ==
  /\ selectedImages' = <<>>
  /\ pdfName' = <<>>

\* savePDF(uri) from its first line to its first await
enterSave(rec, uri) ==
  LET call == [rec EXCEPT !.uri = uri, !.saves = @ + 1] IN
  IF variant = "A" /\ platform = "android"
  THEN [call EXCEPT !.pc = "savePermission"]
  ELSE [call EXCEPT !.pc = "relocate"]

\* the catch of savePDF reporting as the catch of generatePDF does
onSaveErrorAsGenerate(rec) ==
  [Alert(Fail(rec, "save"), "Failed to generate PDF") EXCEPT !.pc = "done"]

\* catch (error) of savePDF
onSaveError(rec) ==
  [Alert(Fail(rec, "save"), "Save Error") EXCEPT !.pc = "done"]

\* Alert with an OK button whose onPress resets the session
successDialog(rec, title) ==
  [Alert(rec, title) EXCEPT !.pc = "done", !.dialog = "open"]

\* a step of call g that leaves the session state alone
GenStep(g, new) ==
  /\ gen' = [sweptGen EXCEPT ![g] = new]
  /\ isGenerating' = flagAfter(new)
  /\ pick' = sweptPick
  /\ UNCHANGED <<variant, platform, clearDialog>>
  /\ removed' = <<>>

generatePDF(g) ==
  /\ FirstFreeGen(g)
  /\ LET new == enterGenerate IN
       /\ gen' = [sweptGen EXCEPT ![g] = new]
       /\ isGenerating' = IF new.flagSet THEN TRUE ELSE isGenerating
  /\ pick' = sweptPick
  /\ UNCHANGED <<variant, platform, selectedImages, pdfName, clearDialog>>
  /\ removed' = <<>>

\* onPress of the Generate PDF button
PressGenerate ==
  /\ ~GenerateDisabled
  /\ \E g \in 1..MaxGen : generatePDF(g)

\* FileSystem.readAsStringAsync settles
ReadReturn(g) ==
  /\ gen[g].pc = "read"
  /\ \E out \in {"throw", "empty", "data"} :
       LET rec == gen[g] IN
       GenStep(g, IF out = "throw" THEN onReadError(rec)
                  ELSE IF out = "empty" THEN onReadResult(rec, <<>>)
                  ELSE onReadResult(rec, Base64(rec.sel[rec.i + 1])))
  /\ UNCHANGED <<selectedImages, pdfName>>

\* Print.printToFileAsync settles
PrintReturn(g) ==
  /\ gen[g].pc = "print"
  /\ \E out \in {"throw", "ok"} :
       LET rec == gen[g] IN
       GenStep(g, IF out = "throw"
                  THEN [Alert(Fail(rec, "render"), "Failed to generate PDF")
                          EXCEPT !.pc = "done"]
                  ELSE enterSave(rec, PrintFile))
  /\ UNCHANGED <<selectedImages, pdfName>>

\* MediaLibrary.requestPermissionsAsync of savePDF settles (App.js, android)
SavePermissionReturn(g) ==
  /\ gen[g].pc = "savePermission"
  /\ \E out \in {"throw", "denied", "granted"} :
       LET rec == gen[g] IN
       GenStep(g, IF out = "throw" THEN onSaveError(rec)
                  ELSE IF out = "denied"
                       THEN [Fail(rec, "savePermission") EXCEPT !.pc = "done"]
                       ELSE [rec EXCEPT !.pc = "asset"])
  /\ UNCHANGED <<selectedImages, pdfName>>

\* MediaLibrary.createAssetAsync(uri) settles: the asset keeps the name of
\* the file it is created from
AssetReturn(g) ==
  /\ gen[g].pc = "asset"
  /\ \E out \in {"throw", "ok"} :
       LET rec == gen[g] IN
       GenStep(g, IF out = "throw" THEN onSaveError(rec)
                  ELSE [rec EXCEPT !.pc = "album", !.asset = rec.uri])
  /\ UNCHANGED <<selectedImages, pdfName>>

\* MediaLibrary.createAlbumAsync('Download', asset, false) settles
AlbumReturn(g) ==
  /\ gen[g].pc = "album"
  /\ \E out \in {"throw", "ok"} :
       LET rec == gen[g] IN
       GenStep(g, IF out = "throw" THEN onSaveError(rec)
                  ELSE successDialog([rec EXCEPT !.album = rec.asset],
                                     "Success!"))
  /\ UNCHANGED <<selectedImages, pdfName>>

\* FileSystem.moveAsync (App.js) or FileSystem.copyAsync (part_000) settles
RelocateReturn(g) ==
  /\ gen[g].pc = "relocate"
  /\ \E out \in {"throw", "ok"} :
       LET rec == gen[g] IN
       GenStep(g, IF out = "throw" THEN onSaveError(rec)
                  ELSE [rec EXCEPT !.pc = "available",
                                   !.docFile = fileName(rec.name)])
  /\ UNCHANGED <<selectedImages, pdfName>>

\* Sharing.shareAsync(newUri) is called
startShare(rec) ==
  [rec EXCEPT !.pc = "share", !.available = "yes",
              !.shares = Append(@, rec.docFile)]

\* the branch taken when Sharing.isAvailableAsync answers false: nothing in
\* App.js, the "PDF Created!" dialog in part_000
onShareUnavailable(rec) ==
  LET told == [Fail(rec, "shareUnavailable") EXCEPT !.available = "no"] IN
  IF variant = "A" THEN [told EXCEPT !.pc = "done"]
  ELSE successDialog(told, "PDF Created!")

\* Sharing.isAvailableAsync settles
AvailableReturn(g) ==
  /\ gen[g].pc = "available"
  /\ \E out \in {"throw", "no", "yes"} :
       LET rec == gen[g] IN
       GenStep(g, IF out = "throw" THEN onSaveError(rec)
                  ELSE IF out = "yes" THEN startShare(rec)
                  ELSE onShareUnavailable(rec))
  /\ UNCHANGED <<selectedImages, pdfName>>

\* Sharing.shareAsync rejects
ShareThrow(g) ==
  /\ gen[g].pc = "share"
  /\ GenStep(g, onSaveError(gen[g]))
  /\ UNCHANGED <<selectedImages, pdfName>>

\* Sharing.shareAsync resolves in App.js: the session is reset at once
ShareReturnA(g) ==
  /\ gen[g].pc = "share"
  /\ variant = "A"
  /\ GenStep(g, [gen[g] EXCEPT !.pc = "done", !.resets = @ + 1])
  /\ Reset

\* Sharing.shareAsync resolves in part_000: the success dialog is shown
ShareReturnB(g) ==
  /\ gen[g].pc = "share"
  /\ variant = "B"
  /\ GenStep(g, successDialog(gen[g], "Success!"))
  /\ UNCHANGED <<selectedImages, pdfName>>

\* OK of a success dialog
PressOK(g) ==
  /\ gen[g].dialog = "open"
  /\ gen' = [sweptGen EXCEPT ![g] = [gen[g] EXCEPT !.dialog = "ok",
                                                  !.resets = @ + 1]]
  /\ pick' = sweptPick
  /\ Reset
  /\ UNCHANGED <<variant, platform, isGenerating, clearDialog>>
  /\ removed' = <<>>

\* ------------------------------------------------------------- pickImages
FreePick(p) == pick[p].pc \in {"idle", "done"}

FirstFreePick(p) == FreePick(p) /\ \A q \in 1..(p - 1) : ~FreePick(q)

\* picker results: one or more assets, as many as the selection bound allows
Assets(sel) ==
  {a \in SeqsUpTo(Images, MaxSel) : a # <<>> /\ Len(sel) + Len(a) <= MaxSel}

\* a denied permission: requestPermissions alerts and returns false; part_000's
\* pickImages then alerts again before returning
onPermissionDenied(rec) ==
  LET told == Alert(Fail(rec, "permission"), "Permissions Required") IN
  IF variant = "A" THEN [told EXCEPT !.pc = "done"]
  ELSE [Alert(told, "Permissions Needed") EXCEPT !.pc = "done"]

\* a rejected permission request: inside the try of part_000, outside the try
\* of App.js
onPermissionThrow(rec) ==
  IF variant = "A" THEN [Fail(rec, "permissionThrow") EXCEPT !.pc = "done"]
  ELSE [Alert(Fail(rec, "permissionThrow"), "Error") EXCEPT !.pc = "done"]

\* a test that lets one granted permission stand for both
notGrantedBoth(imageStatus, mediaStatus) ==
  imageStatus # "granted" /\ mediaStatus # "granted"

\* imageStatus !== 'granted' || mediaStatus !== 'granted'
notGranted(imageStatus, mediaStatus) ==
  imageStatus # "granted" \/ mediaStatus # "granted"

\* ImagePicker.launchImageLibraryAsync is called
launchPicker(rec) == [rec EXCEPT !.pc = "picker", !.launched = TRUE]

\* an append to the selection of the current render
appendAssetsCurrent(sel, assets) == selectedImages \o assets

\* setSelectedImages([...selectedImages, ...result.assets]), with the
\* selectedImages of the render the handler was bound in
appendAssets(sel, assets) == sel \o assets

\* a step of call p that leaves the session state alone
PickStep(p, new) ==
  /\ pick' = [sweptPick EXCEPT ![p] = new]
  /\ gen' = sweptGen
  /\ UNCHANGED <<variant, platform, pdfName, isGenerating, clearDialog>>
  /\ removed' = <<>>

\* pickImages from its first line to its first await
pickImages(p) ==
  /\ FirstFreePick(p)
  /\ PickStep(p, [NoPick EXCEPT !.pc = "imagePermission",
                                !.sel = selectedImages])
  /\ UNCHANGED selectedImages

\* onPress of the Select Images button
PressSelect ==
  /\ ~SelectDisabled
  /\ \E p \in 1..MaxPick : pickImages(p)

\* ImagePicker.requestMediaLibraryPermissionsAsync settles
ImagePermissionReturn(p) ==
  /\ pick[p].pc = "imagePermission"
  /\ \E out \in {"throw", "denied", "granted"} :
       LET rec == pick[p] IN
       PickStep(p, IF out = "throw" THEN onPermissionThrow(rec)
                   ELSE IF variant = "A"
                        THEN [rec EXCEPT !.pc = "mediaPermission",
                                         !.imageStatus = out]
                        ELSE IF out # "granted"
                             THEN onPermissionDenied(
                                    [rec EXCEPT !.imageStatus = out])
                             ELSE launchPicker(
                                    [rec EXCEPT !.imageStatus = out]))
  /\ UNCHANGED selectedImages

\* MediaLibrary.requestPermissionsAsync of requestPermissions settles (App.js)
MediaPermissionReturn(p) ==
  /\ pick[p].pc = "mediaPermission"
  /\ \E out \in {"throw", "denied", "granted"} :
       LET rec == pick[p] IN
       PickStep(p, IF out = "throw" THEN onPermissionThrow(rec)
                   ELSE IF notGranted(rec.imageStatus, out)
                        THEN onPermissionDenied(
                               [rec EXCEPT !.mediaStatus = out])
                        ELSE launchPicker([rec EXCEPT !.mediaStatus = out]))
  /\ UNCHANGED selectedImages

\* ImagePicker.launchImageLibraryAsync settles with assets
PickerReturnAssets(p) ==
  /\ pick[p].pc = "picker"
  /\ \E assets \in Assets(pick[p].sel) :
       /\ selectedImages' = appendAssets(pick[p].sel, assets)
       /\ LET rec == [pick[p] EXCEPT !.pc = "done", !.assets = assets,
                                     !.replaced = selectedImages] IN
          PickStep(p, IF variant = "A" THEN rec ELSE Alert(rec, "Success"))

\* ImagePicker.launchImageLibraryAsync settles cancelled, or rejects
PickerReturnNothing(p) ==
  /\ pick[p].pc = "picker"
  /\ \E out \in {"throw", "canceled"} :
       LET rec == [pick[p] EXCEPT !.pc = "done"] IN
       PickStep(p, IF out = "throw" THEN Alert(Fail(rec, "picker"), "Error")
                   ELSE rec)
  /\ UNCHANGED selectedImages

\* ------------------------------------------------- removeImage, clearAll
\* removed holds the index of a removeImage call for the one step after it
removeImage(index) ==
  /\ selectedImages' = filterIndex(selectedImages, index, 0)
  /\ gen' = sweptGen
  /\ pick' = sweptPick
  /\ UNCHANGED <<variant, platform, pdfName, isGenerating, clearDialog>>
  /\ removed' = <<index>>

\* onPress of the remove button of a rendered image
PressRemove == \E index \in 0..(Len(selectedImages) - 1) : removeImage(index)

\* onPress of the Clear All button (part_000, shown for a non-empty
\* selection): the confirmation opens
clearAll ==
  /\ variant = "B"
  /\ Len(selectedImages) > 0
  /\ ~clearDialog
  /\ clearDialog' = TRUE
  /\ gen' = sweptGen
  /\ pick' = sweptPick
  /\ UNCHANGED <<variant, platform, selectedImages, pdfName, isGenerating>>
  /\ removed' = <<>>

\* the Clear button of the confirmation
ConfirmClear ==
  /\ clearDialog
  /\ clearDialog' = FALSE
  /\ selectedImages' = <<>>
  /\ gen' = sweptGen
  /\ pick' = sweptPick
  /\ UNCHANGED <<variant, platform, pdfName, isGenerating>>
  /\ removed' = <<>>

\* the Cancel button of the confirmation
CancelClear ==
  /\ clearDialog
  /\ clearDialog' = FALSE
  /\ gen' = sweptGen
  /\ pick' = sweptPick
  /\ UNCHANGED <<variant, platform, selectedImages, pdfName, isGenerating>>
  /\ removed' = <<>>

\* onChangeText of the name input
ChangeText ==
  /\ \E text \in Names : text # pdfName /\ pdfName' = text
  /\ gen' = sweptGen
  /\ pick' = sweptPick
  /\ UNCHANGED <<variant, platform, selectedImages, isGenerating, clearDialog>>
  /\ removed' = <<>>

\* ------------------------------------------------------- specifications
GenReturn ==
  \E g \in 1..MaxGen :
    \/ ReadReturn(g)
    \/ PrintReturn(g)
    \/ SavePermissionReturn(g)
    \/ AssetReturn(g)
    \/ AlbumReturn(g)
    \/ RelocateReturn(g)
    \/ AvailableReturn(g)
    \/ ShareThrow(g)
    \/ ShareReturnA(g)
    \/ ShareReturnB(g)
    \/ PressOK(g)

PickReturn ==
  \E p \in 1..MaxPick :
    \/ ImagePermissionReturn(p)
    \/ MediaPermissionReturn(p)
    \/ PickerReturnAssets(p)
    \/ PickerReturnNothing(p)

Next ==
  \/ PressSelect
  \/ PressRemove
  \/ clearAll
  \/ ConfirmClear
  \/ CancelClear
  \/ ChangeText
  \/ PressGenerate
  \/ GenReturn
  \/ PickReturn

Spec == Init /\ [][Next]_vars

\* every handler called on its own, with any argument and in any session
\* state, each call run to its end before the next one
Quiet == (\A g \in 1..MaxGen : ~InFlight(g)) /\ (\A p \in 1..MaxPick : FreePick(p))

CallGenerate == Quiet /\ \E g \in 1..MaxGen : generatePDF(g)

CallPick == Quiet /\ \E p \in 1..MaxPick : pickImages(p)

CallRemove == Quiet /\ \E index \in (0 - 1)..MaxSel : removeImage(index)

SetName == Quiet /\ ChangeText

NextHarness ==
  \/ CallGenerate
  \/ CallPick
  \/ CallRemove
  \/ SetName
  \/ GenReturn
  \/ PickReturn

SpecHarness == Init /\ [][NextHarness]_vars

\* the handlers as above, where every pending promise settles and every
\* success dialog, which is modal, is answered
SpecLive ==
  /\ Init /\ [][NextHarness]_vars
  /\ WF_vars(GenReturn)
  /\ WF_vars(PickReturn)
  /\ \A g \in 1..MaxGen : WF_vars(PressOK(g))

\* ----------------------------------------------------------------- claims
Has(seq, x) == \E k \in 1..Len(seq) : seq[k] = x

Done(g) == gen[g].pc = "done"

\* deleting the element at a 0-based index of a plain list
DeleteAt(list, index) ==
  IF index >= 0 /\ index < Len(list)
  THEN SubSeq(list, 1, index) \o SubSeq(list, index + 2, Len(list))
  ELSE list

\* C1: at most one generatePDF call is in flight at any time, and while one
\* is in flight the flag is set, so that every further tap on Generate PDF is
\* refused by the button
C1_OneGenerateInFlight ==
  /\ Cardinality({g \in 1..MaxGen : InFlight(g)}) <= 1
  /\ (\E g \in 1..MaxGen : InFlight(g)) => isGenerating /\ GenerateDisabled

\* a call waits for the renderer while the selection and the name would
\* allow a further call
C1_Witness ==
  \E g \in 1..MaxGen :
    /\ gen[g].pc = "print"
    /\ Len(selectedImages) > 0
    /\ ~nameMissing(pdfName)

\* C2 (as claimed): every append, removeAt and clear changes the Selection as
\* the same operation changes a plain ordered list: append concatenates the
\* picked assets to the current list, removeAt deletes the element at the
\* index, clear empties the list
C2_ReferenceListSteps ==
  [][ /\ \A p \in 1..MaxPick :
           PickerReturnAssets(p) =>
             selectedImages' = selectedImages \o pick'[p].assets
      /\ \A index \in 0..MaxSel :
           removeImage(index) =>
             selectedImages' = DeleteAt(selectedImages, index)
      /\ ConfirmClear => selectedImages' = <<>> ]_vars

\* C3: a generatePDF call whose read fails ends there: no renderer call, no
\* save, and the images read are those up to the failing one
C3_ReadFailureAborts ==
  \A g \in 1..MaxGen :
    (Done(g) /\ Has(gen[g].errors, "read")) =>
      /\ gen[g].prints = <<>>
      /\ gen[g].saves = 0
      /\ Len(gen[g].reads) = gen[g].i + 1
      /\ Len(gen[g].reads) <= Len(gen[g].sel)
      /\ \A k \in 1..Len(gen[g].reads) :
           k <= Len(gen[g].sel) => gen[g].reads[k] = gen[g].sel[k]
      /\ Len(gen[g].alerts) = 1

\* the first of two images failed to read
C3_Witness ==
  \E g \in 1..MaxGen :
    /\ Done(g)
    /\ Has(gen[g].errors, "read")
    /\ Len(gen[g].sel) = 2
    /\ gen[g].reads = <<gen[g].sel[1]>>

\* the markup of a call has one block per image of its selection, in order
BlocksOfSelection(rec) ==
  /\ Len(rec.prints) = 1
  /\ Len(rec.prints[1].body) = Len(rec.sel)
  /\ \A k \in 1..Len(rec.sel) :
       rec.prints[1].body[k] = [tag |-> "img", src |-> <<"b64", rec.sel[k]>>]

C5_DirectSaveName ==
  \A g \in 1..MaxGen :
    gen[g].album # <<>> => gen[g].album = trim(gen[g].name) \o <<".pdf">>

C7_RejectedBeforeIO ==
  \A g \in 1..MaxGen :
    (gen[g].pc \notin {"idle", "dialog"}
       /\ (Len(gen[g].sel) = 0 \/ trim(gen[g].name) = <<>>)) =>
      /\ Done(g)
      /\ gen[g].reads = <<>>
      /\ gen[g].prints = <<>>
      /\ gen[g].saves = 0
      /\ ~gen[g].flagSet
      /\ ~isGenerating
      /\ Len(gen[g].alerts) = 1

\* a call with images and a name of blanks was turned away
C7_Witness ==
  \E g \in 1..MaxGen :
    /\ Done(g)
    /\ Len(gen[g].sel) > 0
    /\ gen[g].name = <<" ">>
    /\ gen[g].alerts = <<"PDF Name Required">>
    /\ gen[g].reads = <<>>

\* C8: whenever no generatePDF call is in flight the flag is idle
C8_FlagReleased ==
  (\A g \in 1..MaxGen : ~InFlight(g)) => ~isGenerating

\* a call that had set the flag left through a failed save
C8_Witness ==
  \E g \in 1..MaxGen :
    /\ Done(g)
    /\ gen[g].flagSet
    /\ Has(gen[g].errors, "save")
    /\ ~isGenerating

\* the failures of the workflow: a permission denied on pick or on save, a
\* picker error, an unreadable or empty image, a render or save failure,
\* sharing unavailable
Failures == {"permission", "savePermission", "picker", "read", "empty",
             "render", "save", "shareUnavailable"}

HasFailure(errors) == \E k \in 1..Len(errors) : errors[k] \in Failures

\* C9 (as claimed): every invocation in which something failed shows exactly
\* one notice
C9_OneNoticePerFailure ==
  /\ \A g \in 1..MaxGen :
       (Done(g) /\ HasFailure(gen[g].errors)) => Len(gen[g].alerts) = 1
  /\ \A p \in 1..MaxPick :
       (pick[p].pc = "done" /\ HasFailure(pick[p].errors)) =>
         Len(pick[p].alerts) = 1

\* C10 (as claimed): while the flag is set, no append, removeAt or clear
\* changes the selection
C10_NoMutationWhileGenerating ==
  [][ isGenerating =>
        ~( /\ selectedImages' # selectedImages
           /\ \/ PressRemove
              \/ ConfirmClear
              \/ \E p \in 1..MaxPick : PickerReturnAssets(p) ) ]_vars

\* C11: the picker is launched only after every permission requestPermissions
\* asks for was granted, a pickImages call that was denied ends without
\* picker and without assets, and a savePDF call that was denied the save
\* permission creates no asset and no file
C11_DeniedNeverProceeds ==
  /\ \A p \in 1..MaxPick :
       /\ pick[p].launched =>
            /\ pick[p].imageStatus = "granted"
            /\ variant = "A" => pick[p].mediaStatus = "granted"
       /\ Has(pick[p].errors, "permission") =>
            /\ pick[p].pc = "done"
            /\ ~pick[p].launched
            /\ pick[p].assets = <<>>
            /\ Len(pick[p].alerts) >= 1
  /\ \A g \in 1..MaxGen :
       Has(gen[g].errors, "savePermission") =>
         /\ Done(g)
         /\ gen[g].asset = <<>>
         /\ gen[g].album = <<>>
         /\ gen[g].docFile = <<>>
         /\ gen[g].dialog = "none"

\* the gallery permission was granted and the media permission denied
C11_Witness ==
  \E p \in 1..MaxPick :
    /\ pick[p].pc = "done"
    /\ pick[p].imageStatus = "granted"
    /\ pick[p].mediaStatus = "denied"
    /\ ~pick[p].launched

\* C12: the step on which a read of a call fails, on the image at position k
\* after k - 1 reads that succeeded, ends the call with the one notice
\* "Could not read image k" and leaves the selection and the name as they
\* were
C12_ReadFailureNamesPosition ==
  [][ \A g \in 1..MaxGen :
        (gen[g].pc = "read" /\ gen'[g].pc = "done"
           /\ Has(gen'[g].errors, "read")) =>
          /\ gen'[g].alerts = <<"Could not read image">>
          /\ gen'[g].position = Len(gen[g].reads)
          /\ gen'[g].position >= 1
          /\ gen'[g].position <= Len(gen[g].sel)
          /\ gen'[g].reads = gen[g].reads
          /\ selectedImages' = selectedImages
          /\ pdfName' = pdfName ]_vars

\* the second of two images failed to read
C12_Witness ==
  \E g \in 1..MaxGen :
    /\ Done(g)
    /\ Has(gen[g].errors, "read")
    /\ gen[g].position = 2
    /\ Len(selectedImages) = 2

\* C13: removeImage with an index outside 0..len-1 leaves the selection as it
\* is, with an index inside it deletes exactly that element and keeps the
\* others in their order; neither raises a notice or an error
C13_RemoveAt ==
  [][ \A index \in (0 - 1)..MaxSel :
        removeImage(index) =>
          /\ selectedImages' = DeleteAt(selectedImages, index)
          /\ (index < 0 \/ index >= Len(selectedImages)) =>
                selectedImages' = selectedImages
          /\ (index >= 0 /\ index < Len(selectedImages)) =>
                /\ Len(selectedImages') = Len(selectedImages) - 1
                /\ \A k \in 1..Len(selectedImages') :
                     selectedImages'[k] =
                       selectedImages[IF k <= index THEN k ELSE k + 1]
          /\ \A g \in 1..MaxGen :
               gen'[g].alerts = <<>> /\ gen'[g].errors = <<>>
          /\ \A p \in 1..MaxPick :
               pick'[p].alerts = <<>> /\ pick'[p].errors = <<>> ]_vars

\* removeImage was called with the index past the end of two images
C13_Witness ==
  /\ removed = <<Len(selectedImages)>>
  /\ selectedImages = <<"A", "B">>

\* C14: the step on which a file operation of savePDF fails, after the
\* render succeeded, ends the call with the one notice "Save Error", without
\* the notice "Failed to generate PDF", without a success dialog and without
\* a reset of the selection and the name
C14_SaveErrorNotice ==
  [][ \A g \in 1..MaxGen :
        (InFlight(g) /\ gen'[g].pc = "done" /\ Has(gen'[g].errors, "save")) =>
          /\ gen'[g].prints # <<>>
          /\ gen'[g].alerts = <<"Save Error">>
          /\ ~Has(gen'[g].alerts, "Failed to generate PDF")
          /\ ~Has(gen'[g].alerts, "Success!")
          /\ ~Has(gen'[g].alerts, "PDF Created!")
          /\ gen'[g].dialog = "none"
          /\ gen'[g].resets = 0
          /\ selectedImages' = selectedImages
          /\ pdfName' = pdfName ]_vars

\* the share call failed after the file was put under its name
C14_Witness ==
  \E g \in 1..MaxGen :
    /\ Done(g) /\ Has(gen[g].errors, "save")
    /\ gen[g].shares # <<>>
    /\ selectedImages = gen[g].sel
    /\ pdfName = gen[g].name

\* a finished call whose savePDF ran with none of the failures of the
\* workflow
Succeeded(rec) ==
  rec.pc = "done" /\ rec.saves > 0 /\ ~HasFailure(rec.errors)

\* C15 (as claimed): after every savePDF call that completed successfully
\* the selection and the name eventually are empty, and no call that did not
\* succeed resets them
C15_ResetAfterSuccess ==
  /\ \A g \in 1..MaxGen :
       Succeeded(gen[g]) ~> (selectedImages = <<>> /\ pdfName = <<>>)
  /\ [](\A g \in 1..MaxGen :
          (Done(g) /\ ~Succeeded(gen[g])) => gen[g].resets = 0)

\* the reads, the markup and the file name of a call record are those of the
\* selection and the name the record holds
OfSnapshot(rec) ==
  LET data == {<<"b64", rec.sel[j]>> : j \in 1..Len(rec.sel)} IN
  /\ Len(rec.reads) <= Len(rec.sel)
  /\ \A k \in 1..Len(rec.reads) : rec.reads[k] = rec.sel[k]
  /\ \A k \in 1..Len(rec.images) : rec.images[k] \in data
  /\ \A n \in 1..Len(rec.prints) :
       /\ Len(rec.reads) = Len(rec.sel)
       /\ Len(rec.prints[n].body) = Len(rec.images)
       /\ \A k \in 1..Len(rec.images) :
            rec.prints[n].body[k] = [tag |-> "img", src |-> rec.images[k]]
  /\ rec.docFile # <<>> => rec.docFile = trim(rec.name) \o <<".pdf">>
  /\ \A k \in 1..Len(rec.shares) :
       rec.shares[k] = trim(rec.name) \o <<".pdf">>

\* the step is the invocation of generatePDF in slot g: a record of a call
\* appears where none was in flight
Invoked(g) ==
  /\ ~InFlight(g)
  /\ gen'[g].pc \notin {"idle", "dialog"}
  /\ gen'[g].dialog # "ok"

\* C16: a generatePDF call takes the selection and the name of the moment it
\* is invoked, keeps them through every step whatever removeImage, clearAll,
\* pickImages or the name input do meanwhile, and reads, renders and names
\* the file from them alone
C16_Snapshot ==
  [][ \A g \in 1..MaxGen :
        gen'[g] # gen[g] =>
          /\ Invoked(g) =>
               gen'[g].sel = selectedImages /\ gen'[g].name = pdfName
          /\ InFlight(g) =>
               gen'[g].sel = gen[g].sel /\ gen'[g].name = gen[g].name
          /\ gen'[g].pc \notin {"idle", "dialog"} => OfSnapshot(gen'[g]) ]_vars

\* a call has put its file under the name it was invoked with after the
\* selection was emptied and the name changed
C16_Witness ==
  \E g \in 1..MaxGen :
    /\ gen[g].docFile # <<>>
    /\ Len(gen[g].sel) = 2
    /\ selectedImages = <<>>
    /\ trim(pdfName) # trim(gen[g].name)

\* C17: a pickImages call takes the selection of the moment it is invoked
\* and keeps it while the permission prompts and the picker are open; when
\* the picker returns assets the selection becomes that selection followed
\* by the assets in picker order, whatever the selection had become meanwhile
C17_PickOverwrites ==
  [][ \A p \in 1..MaxPick :
        pick'[p] # pick[p] =>
          /\ (FreePick(p) /\ pick'[p].pc # "idle") =>
               pick'[p].sel = selectedImages
          /\ ~FreePick(p) => pick'[p].sel = pick[p].sel
          /\ (pick'[p].pc = "done" /\ pick'[p].assets # <<>>) =>
               /\ pick[p].pc = "picker"
               /\ pick'[p].replaced = selectedImages
               /\ Len(selectedImages') = Len(pick[p].sel) + Len(pick'[p].assets)
               /\ \A k \in 1..Len(pick[p].sel) :
                    selectedImages'[k] = pick[p].sel[k]
               /\ \A k \in 1..Len(pick'[p].assets) :
                    selectedImages'[Len(pick[p].sel) + k] = pick'[p].assets[k]
      ]_vars

\* a selection emptied while the picker was open is back, followed by the
\* assets, after the picker returned
C17_Witness ==
  \E p \in 1..MaxPick :
    /\ pick[p].pc = "done"
    /\ pick[p].assets # <<>>
    /\ pick[p].sel # <<>>
    /\ pick[p].replaced = <<>>
    /\ Len(selectedImages) = MaxSel
====
